---- MODULE Spec2Model ----
(***************************************************************************)
(* json-templates (src/index.js): parse(value, evalDefaults) compiles a    *)
(* JSON-like value holding {{key}} / {{key:default}} placeholders into a   *)
(* Template, a function of a context with a deduplicated `parameters`      *)
(* list.                                                                   *)
(*                                                                         *)
(* A JavaScript string is a sequence of one-character strings.  A          *)
(* JavaScript value is a record tagged by t (the result of type(), line    *)
(* 11): string, number, boolean, null, undefined, array, object, function. *)
(* An object is the sequence of its own properties in Object.keys order.   *)
(* A thrown exception is the value Throw(name).                            *)
(***************************************************************************)
EXTENDS Integers, Sequences, FiniteSets

\* lastIndex: the lastIndex of the one regex object all parseString calls
\* share (line 82).  template: the Template the last parse call returned;
\* src, evalDefaults: the arguments of that call.  context, result: the
\* argument and the outcome of the last call of that Template.  calls: how
\* many calls (of parse or of a Template) were made, counted up to MaxCalls.
VARIABLES lastIndex, src, evalDefaults, context, template, result, calls

vars == <<lastIndex, src, evalDefaults, context, template, result, calls>>

-----------------------------------------------------------------------------
(* Values *)

Str(s) == [t |-> "string", s |-> s]

Num(n) == [t |-> "number", n |-> n]

Bool(b) == [t |-> "boolean", b |-> b]

Null == [t |-> "null"]

Undefined == [t |-> "undefined"]

Arr(a) == [t |-> "array", a |-> a]

Obj(o) == [t |-> "object", o |-> o]

\* A callable of the context: calling it with no arguments yields r
\* (a value, or a Throw when the callable throws).
Fn(r) == [t |-> "function", r |-> r]

Throw(e) == [t |-> "throw", e |-> e]

Prop(k, v) == [k |-> k, v |-> v]

IsThrow(v) == v.t = "throw"

\* `typeof value`: arrays and null are "object".
TypeOf(v) == IF v.t \in {"array", "null", "object"} THEN "object" ELSE v.t

\* type(value): the enhanced typeof; the tag of a value is its type().
type(v) == v.t

-----------------------------------------------------------------------------
(* Strings *)

Whitespace == {" "}

WordChars == {"a", "b", "d", "k", "o", "p", "r", "t", "x", "1", "2", "_"}

\* The characters of the model that the character class of the regex
\* accepts (word characters, colon, braces, whitespace, plus, dot, dollar,
\* parenthesis; the class of line 82 holds more punctuation than is modelled).
ClassChars == WordChars \cup Whitespace \cup {":", "{", "}", "+", ".", "$", "("}

StartsWith(s, pre) == Len(s) >= Len(pre) /\ SubSeq(s, 1, Len(pre)) = pre

EndsWith(s, suf) == Len(s) >= Len(suf) /\ SubSeq(s, Len(s) - Len(suf) + 1, Len(s)) = suf

\* The least element of a nonempty set of integers, and the greatest.
Min(S) == CHOOSE i \in S : \A j \in S : i <= j

Max(S) == CHOOSE i \in S : \A j \in S : i >= j

MinOrZero(S) == IF S = {} THEN 0 ELSE Min(S)

SubSeqOver(s, keep) == IF keep = {} THEN <<>> ELSE SubSeq(s, Min(keep), Max(keep))

\* String.prototype.trim
Trim(s) == SubSeqOver(s, {i \in 1..Len(s) : s[i] \notin Whitespace})

\* indexOf of one character, 1-based; 0 when absent (JavaScript's -1).
IndexOf(s, ch) == MinOrZero({i \in 1..Len(s) : s[i] = ch})

\* First position (1-based) where sub occurs in s; 0 when it does not.
IndexOfSub(s, sub) ==
    MinOrZero({i \in 1..(Len(s) - Len(sub) + 1) : SubSeq(s, i, i + Len(sub) - 1) = sub})

Digit(n) == <<"0", "1", "2", "3", "4", "5", "6", "7", "8", "9">>[n + 1]

RECURSIVE NumToStr(_)
NumToStr(n) == IF n < 10 THEN <<Digit(n)>> ELSE NumToStr(n \div 10) \o <<Digit(n % 10)>>

ObjectObject == <<"[", "o", "b", "j", "e", "c", "t", " ", "O", "b", "j", "e", "c", "t", "]">>

\* ToString of a value, as String.prototype.replace and a computed
\* property key apply it.
RECURSIVE ToString(_)
RECURSIVE JoinFrom(_, _)
JoinFrom(a, i) ==
    IF i > Len(a) THEN <<>>
    ELSE (IF i > 1 THEN <<",">> ELSE <<>>)
         \o (IF a[i].t \in {"null", "undefined"} THEN <<>> ELSE ToString(a[i]))
         \o JoinFrom(a, i + 1)

ToString(v) ==
    CASE v.t = "string" -> v.s
      [] v.t = "number" -> NumToStr(v.n)
      [] v.t = "boolean" -> IF v.b THEN <<"t", "r", "u", "e">> ELSE <<"f", "a", "l", "s", "e">>
      [] v.t = "null" -> <<"n", "u", "l", "l">>
      [] v.t = "undefined" -> <<"u", "n", "d", "e", "f", "i", "n", "e", "d">>
      [] v.t = "array" -> JoinFrom(v.a, 1)
      [] OTHER -> ObjectObject

\* GetSubstitution of String.prototype.replace for a string pattern (no
\* capture groups): "$$" is a dollar sign and "$&" the matched text; every
\* other character stands for itself.  (The two patterns that insert the
\* text before and after the match need a backquote or a quote after the
\* dollar sign; neither character is in the alphabet of the model.)
RECURSIVE GetSubstitution(_, _)
GetSubstitution(matched, repl) ==
    IF repl = <<>> THEN <<>>
    ELSE IF repl[1] = "$" /\ Len(repl) >= 2 /\ repl[2] \in {"$", "&"}
         THEN (IF repl[2] = "$" THEN <<"$">> ELSE matched)
              \o GetSubstitution(matched, SubSeq(repl, 3, Len(repl)))
         ELSE <<repl[1]>> \o GetSubstitution(matched, Tail(repl))

ReplaceAt(s, p, pattern, repl) ==
    IF p = 0 THEN s
    ELSE SubSeq(s, 1, p - 1) \o GetSubstitution(pattern, repl)
         \o SubSeq(s, p + Len(pattern), Len(s))

\* str.replace(match, value) with a string pattern: the first occurrence
\* only, the replacement being ToString(value) with its "$" patterns
\* expanded.
Replace(s, pattern, repl) == ReplaceAt(s, IndexOfSub(s, pattern), pattern, repl)

-----------------------------------------------------------------------------
(* The global regular expression of line 82 *)

\* End (0-based, exclusive) of the match that starts at 0-based index p, or
\* 0 when none starts there: "{{", then the fewest (at least one) class
\* characters that are followed by "}}".
MatchEnd(s, p) ==
    IF ~(p + 2 <= Len(s) /\ s[p + 1] = "{" /\ s[p + 2] = "{") THEN 0
    ELSE MinOrZero({p + 4 + n : n \in {m \in 1..(Len(s) - p - 4) :
                      /\ \A i \in (p + 3)..(p + 2 + m) : s[i] \in ClassChars
                      /\ s[p + 3 + m] = "}"
                      /\ s[p + 4 + m] = "}"}})

ExecResult(s, starts) ==
    IF starts = {} THEN [found |-> FALSE, index |-> 0, end |-> 0]
    ELSE [found |-> TRUE, index |-> Min(starts), end |-> MatchEnd(s, Min(starts))]

\* regex.exec from 0-based index `from`: the leftmost match at or after it.
RegexExec(s, from) == ExecResult(s, {p \in from..Len(s) : MatchEnd(s, p) # 0})

TestResult(m) == [found |-> m.found, lastIndex |-> IF m.found THEN m.end ELSE 0]

\* regex.test(str) of a global regex: searches from lastIndex and leaves
\* lastIndex at the end of the match, or at 0 when there is none.
RegexTest(s, li) == TestResult(RegexExec(s, li))

\* The matches of repeated regex.exec calls from `from`, with their places.
RECURSIVE ExecAll(_, _, _)
ExecAll(s, m, acc) ==
    IF ~m.found THEN acc
    ELSE ExecAll(s, RegexExec(s, m.end), Append(acc, m))

MatchText(s, ms) == [i \in 1..Len(ms) |-> SubSeq(s, ms[i].index + 1, ms[i].end)]

MatchesFrom(s, from) == MatchText(s, ExecAll(s, RegexExec(s, from), <<>>))

\* A variant: a match that scans from lastIndex and leaves it where it was.
StrMatchKeepsLastIndex(s, li) == [matches |-> MatchesFrom(s, li), lastIndex |-> li]

\* str.match(regex) of a global regex: scanning starts at 0 whatever
\* lastIndex was, every match is collected, and lastIndex is left at 0.
StrMatch(s, li) == [matches |-> MatchesFrom(s, 0), lastIndex |-> 0]

-----------------------------------------------------------------------------
(* Collaborators: object-path, dedupe, notevil *)

RECURSIVE SplitAt(_, _, _)
Split(s, sep) == SplitAt(s, sep, IndexOf(s, sep))

SplitAt(s, sep, i) ==
    IF i = 0 THEN <<s>>
    ELSE <<SubSeq(s, 1, i - 1)>> \o Split(SubSeq(s, i + 1, Len(s)), sep)

ElementOr(a, hits) == IF hits = {} THEN Undefined ELSE a[Min(hits)]

\* The own property `seg` of obj, or Undefined: a key of an object, a
\* one-digit index of an array.
OwnProp(obj, seg) ==
    CASE obj.t = "object" ->
           ElementOr([i \in 1..Len(obj.o) |-> obj.o[i].v],
                     {i \in 1..Len(obj.o) : obj.o[i].k = seg})
      [] obj.t = "array" ->
           ElementOr(obj.a, {i \in 1..Len(obj.a) : seg = NumToStr(i - 1)})
      [] OTHER -> Undefined

RECURSIVE GetPath(_, _)
Descend(nextObj, segs) ==
    IF nextObj = Undefined THEN Undefined
    ELSE IF Len(segs) = 1 THEN nextObj
    ELSE GetPath(nextObj, Tail(segs))

GetPath(obj, segs) ==
    IF obj.t \in {"null", "undefined"} THEN Undefined
    ELSE Descend(OwnProp(obj, Head(segs)), segs)

\* objectPath.get(obj, path): the value at a dotted path, undefined when a
\* segment is missing; the empty path is the object itself.
Get(obj, path) == IF path = <<>> THEN obj ELSE GetPath(obj, Split(path, "."))

\* dedupe(list, item => item.key): the first element of each key, in order.
RECURSIVE DedupeInto(_, _)
DedupeInto(clone, rest) ==
    IF rest = <<>> THEN clone
    ELSE IF \E i \in 1..Len(clone) : clone[i].key = Head(rest).key
         THEN DedupeInto(clone, Tail(rest))
         ELSE DedupeInto(Append(clone, Head(rest)), Tail(rest))

dedupe(list) == DedupeInto(<<>>, list)

IsIdentifier(s) ==
    /\ s # <<>>
    /\ \A i \in 1..Len(s) : s[i] \in WordChars
    /\ s[1] \notin {"1", "2"}

Lookup(v) == IF v = Undefined THEN Throw("ReferenceError") ELSE v

EvalExpr(e, scope) ==
    CASE e = <<"1", "+", "1">> -> Num(2)
      [] e = <<"1">> -> Num(1)
      [] e = <<"2">> -> Num(2)
      [] IsIdentifier(e) -> Lookup(OwnProp(scope, e))
      [] OTHER -> Throw("SyntaxError")

\* safeEval(source, scope): the value of the expression `source` in the
\* scope, or a Throw.  The expressions of the model: the sum 1+1, the
\* numerals 1 and 2, an identifier (the scope's own property of that name,
\* a ReferenceError when there is none); every other default text of the
\* model (an operator with no operand, an open parenthesis, the empty text,
\* the undefined source of a placeholder that has no default) is no
\* expression.
SafeEval(source, scope) ==
    IF source.t # "string" THEN Throw("SyntaxError") ELSE EvalExpr(Trim(source.s), scope)

-----------------------------------------------------------------------------
(* Compilation *)

SplitParameter(matchValue, i) ==
    IF i # 0
    THEN [key |-> SubSeq(matchValue, 1, i - 1),
          defaultValue |-> SubSeq(matchValue, i + 1, Len(matchValue))]
    ELSE [key |-> matchValue]

MatchValue(match) == Trim(SubSeq(match, 3, Len(match) - 2))

\* Parameter(match): the descriptor of one placeholder.
Parameter(match) == SplitParameter(MatchValue(match), IndexOf(MatchValue(match), ":"))

\* parameter.defaultValue: undefined when the descriptor has no such field.
DefaultOf(parameter) ==
    IF "defaultValue" \in DOMAIN parameter THEN Str(parameter.defaultValue) ELSE Undefined

\* A variant: the parameters kept as collected, duplicates included.
TemplateNoDedupe(fn, parameters) == [f |-> fn, parameters |-> parameters]

\* Template(fn, parameters): fn with the deduplicated `parameters` property.
Template(fn, parameters) == [f |-> fn, parameters |-> dedupe(parameters)]

\* The closures: () => str and function() { return value }
ConstantFn(value) == [kind |-> "constant", value |-> value]

StringFn(str, e, matches, parameters) ==
    [kind |-> "string", str |-> str, matches |-> matches, parameters |-> parameters,
     evalDefaults |-> e]

Compiled2(fn, parameters, li) == [template |-> Template(fn, parameters), lastIndex |-> li]

\* Lines 89-90 and 130: the branch of a string that holds a placeholder.
ParseMatched(str, e, m) ==
    Compiled2(StringFn(str, e, m.matches, [i \in 1..Len(m.matches) |-> Parameter(m.matches[i])]),
              [i \in 1..Len(m.matches) |-> Parameter(m.matches[i])], m.lastIndex)

\* Lines 88 and 130: the branches of the regex.test.
ParseTested(str, e, test) ==
    IF test.found THEN ParseMatched(str, e, StrMatch(str, test.lastIndex))
    ELSE Compiled2(ConstantFn(Str(str)), <<>>, test.lastIndex)

\* parseString(str, evalDefaults) with the shared regex at lastIndex li:
\* the Template and the lastIndex the call leaves.
parseString(str, e, li) == ParseTested(str, e, RegexTest(str, li))

RECURSIVE parse(_, _, _)
RECURSIVE ChildrenFrom(_, _, _, _)
RECURSIVE TemplatesFrom(_, _, _, _)

AddChild(acc, k, v) ==
    [children |-> Append(acc.children,
                         [keyTemplate |-> k.template, valueTemplate |-> v.template]),
     lastIndex |-> v.lastIndex]

CompileChild(acc, k, value, e) == AddChild(acc, k, parse(value, e, k.lastIndex))

\* Object.keys(object).map(...): one child per key, the key compiled
\* before the value.  acc holds the children so far and the lastIndex.
ChildrenFrom(acc, props, i, e) ==
    IF i > Len(props) THEN acc
    ELSE ChildrenFrom(CompileChild(acc, parseString(props[i].k, e, acc.lastIndex),
                                   props[i].v, e),
                      props, i + 1, e)

\* children.reduce(...): per child, the parameters of the value and then
\* those of the key.
RECURSIVE ObjectParameters(_, _)
ObjectParameters(children, i) ==
    IF i > Len(children) THEN <<>>
    ELSE children[i].valueTemplate.parameters \o children[i].keyTemplate.parameters
         \o ObjectParameters(children, i + 1)

ObjectTemplate(c) ==
    Compiled2([kind |-> "object", children |-> c.children],
              ObjectParameters(c.children, 1), c.lastIndex)

parseObject(object, e, li) ==
    ObjectTemplate(ChildrenFrom([children |-> <<>>, lastIndex |-> li], object.o, 1, e))

AddTemplate(acc, el) ==
    [templates |-> Append(acc.templates, el.template), lastIndex |-> el.lastIndex]

\* array.map(el => parse(el, evalDefaults))
TemplatesFrom(acc, a, i, e) ==
    IF i > Len(a) THEN acc
    ELSE TemplatesFrom(AddTemplate(acc, parse(a[i], e, acc.lastIndex)), a, i + 1, e)

RECURSIVE ArrayParameters(_, _)
ArrayParameters(templates, i) ==
    IF i > Len(templates) THEN <<>>
    ELSE templates[i].parameters \o ArrayParameters(templates, i + 1)

ArrayTemplate(ts) ==
    Compiled2([kind |-> "array", templates |-> ts.templates],
              ArrayParameters(ts.templates, 1), ts.lastIndex)

parseArray(array, e, li) ==
    ArrayTemplate(TemplatesFrom([templates |-> <<>>, lastIndex |-> li], array.a, 1, e))

parse(value, e, li) ==
    CASE type(value) = "string" -> parseString(value.s, e, li)
      [] type(value) = "object" -> parseObject(value, e, li)
      [] type(value) = "array" -> parseArray(value, e, li)
      [] OTHER -> Compiled2(ConstantFn(value), <<>>, li)

-----------------------------------------------------------------------------
(* Rendering *)

Fallback(r, default) == IF IsThrow(r) THEN default ELSE r

\* A variant: the default evaluated without the try/catch of lines 100-104.
OrDefaultEvalUncaught(value, parameter, e, ctx) ==
    IF value \in {Undefined, Null}
    THEN IF e THEN SafeEval(DefaultOf(parameter), ctx) ELSE DefaultOf(parameter)
    ELSE value

OrDefault(value, parameter, e, ctx) ==
    IF value \in {Undefined, Null}
    THEN IF e THEN Fallback(SafeEval(DefaultOf(parameter), ctx), DefaultOf(parameter))
         ELSE DefaultOf(parameter)
    ELSE value

\* Lines 95-106: the value of the key in the context, replaced, when it is
\* undefined or null, by the default text or (evalDefaults) by the value of
\* the default text; a failed evaluation leaves the default text.
ResolveValue(parameter, e, ctx) == OrDefault(Get(ctx, parameter.key), parameter, e, ctx)

\* Lines 108-110: a callable value is called with no arguments.
CallValue(value) == IF value.t = "function" THEN value.r ELSE value

\* The whole-string test of line 121.
ReturnsNative(nMatches, str) ==
    nMatches = 1 /\ StartsWith(str, <<"{", "{">>) /\ EndsWith(str, <<"}", "}">>)

\* Lines 112-125, with the value of lines 95-110.
StepWith(str, match, nMatches, value) ==
    IF IsThrow(value) THEN value
    ELSE IF TypeOf(value) = "object" THEN value
    ELSE IF value = Undefined THEN Null
    ELSE IF str.t # "string" THEN Throw("TypeError")
    ELSE IF ReturnsNative(nMatches, str.s) THEN value
    ELSE Str(Replace(str.s, match, ToString(value)))

\* A variant: a reducer that replaces in the original string each time.
StringStepFromOriginal(str, match, parameter, f, ctx) ==
    StepWith(Str(f.str), match, Len(f.matches),
             CallValue(ResolveValue(parameter, f.evalDefaults, ctx)))

\* One call of the reducer of lines 93-126.  `str` is the accumulator (the
\* reducer's first parameter shadows the template's str): what it returns
\* is what the next call receives, and a method call on an accumulator that
\* is no string is a TypeError.
StringStep(str, match, parameter, f, ctx) ==
    StepWith(str, match, Len(f.matches), CallValue(ResolveValue(parameter, f.evalDefaults, ctx)))

\* matches.reduce(reducer, str): every match is visited, whatever an
\* earlier call returned; a throw ends the reduction.
RECURSIVE ReduceMatches(_, _, _, _)
ReduceMatches(acc, i, f, ctx) ==
    IF i > Len(f.matches) \/ IsThrow(acc) THEN acc
    ELSE ReduceMatches(StringStep(acc, f.matches[i], f.parameters[i], f, ctx), i + 1, f, ctx)

\* context = context || {}
OrEmpty(ctx) == IF ctx.t \in {"undefined", "null"} THEN Obj(<<>>) ELSE ctx

ProtoKey == <<"_", "_", "p", "r", "o", "t", "o", "_", "_">>

SetOwn(o, k, value) ==
    IF k = ProtoKey THEN o
    ELSE IF \E i \in 1..Len(o) : o[i].k = k
    THEN [i \in 1..Len(o) |-> IF o[i].k = k THEN Prop(k, value) ELSE o[i]]
    ELSE Append(o, Prop(k, value))

\* A variant: an assignment that keeps the value a key already has.
SetOwnFirstWins(o, k, value) ==
    IF k = ProtoKey \/ \E i \in 1..Len(o) : o[i].k = k THEN o
    ELSE Append(o, Prop(k, value))

AssignFirstWins(o, key, value) == SetOwnFirstWins(o, ToString(key), value)

\* newObject[key] = value on a plain object: the key is converted by
\* ToString; the key __proto__ reaches the inherited setter and creates no
\* own property; an own key is overwritten in place; a new key is added.
Assign(o, key, value) == SetOwn(o, ToString(key), value)

RECURSIVE Invoke(_, _)
RECURSIVE ReduceChildren(_, _, _, _)
RECURSIVE MapTemplates(_, _, _, _)

\* newObject[child.keyTemplate(context)] = child.valueTemplate(context)
AssignChild(newObject, key, value) ==
    IF IsThrow(key) THEN key
    ELSE IF IsThrow(value) THEN value
    ELSE Obj(Assign(newObject.o, key, value))

\* children.reduce(...) of lines 146-149; a throw ends it.
ReduceChildren(newObject, children, i, ctx) ==
    IF i > Len(children) \/ IsThrow(newObject) THEN newObject
    ELSE ReduceChildren(AssignChild(newObject, Invoke(children[i].keyTemplate.f, ctx),
                                    Invoke(children[i].valueTemplate.f, ctx)),
                        children, i + 1, ctx)

Push(acc, el) == IF IsThrow(el) THEN el ELSE Arr(Append(acc.a, el))

\* templates.map(template => template(context)) of line 162; a throw ends it.
MapTemplates(acc, templates, i, ctx) ==
    IF i > Len(templates) \/ IsThrow(acc) THEN acc
    ELSE MapTemplates(Push(acc, Invoke(templates[i].f, ctx)), templates, i + 1, ctx)

\* Calling the function of a Template with a context.
Invoke(f, ctx) ==
    CASE f.kind = "constant" -> f.value
      [] f.kind = "string" -> ReduceMatches(Str(f.str), 1, f, OrEmpty(ctx))
      [] f.kind = "object" -> ReduceChildren(Obj(<<>>), f.children, 1, ctx)
      [] OTHER -> MapTemplates(Arr(<<>>), f.templates, 1, ctx)

Render(tmpl, ctx) == Invoke(tmpl.f, ctx)

-----------------------------------------------------------------------------
(* Inputs of the bounded model *)

\* The most pieces (placeholders and literal texts) a template string of
\* the model is concatenated from.
MaxPieces == 3

\* The count of calls saturates here.
MaxCalls == 3

\* The most elements of an array and the most properties of an object.
MaxWidth == 2

Placeholder(inner) == <<"{", "{">> \o inner \o <<"}", "}">>

RECURSIVE Concat(_)
Concat(pieces) == IF pieces = <<>> THEN <<>> ELSE Head(pieces) \o Concat(Tail(pieces))

\* The strings concatenated from at most MaxPieces of the given pieces.
StringsOf(pieces) ==
    {Concat(ps) : ps \in UNION {[1..n -> pieces] : n \in 0..MaxPieces}}

\* The sequences of at most MaxWidth elements of S.
SeqsOf(S) == UNION {[1..n -> S] : n \in 0..MaxWidth}

DistinctKeys(props) == \A i, j \in 1..Len(props) : i # j => props[i].k # props[j].k

\* The objects of at most MaxWidth properties, keys in K and values in V.
ObjectsOf(K, V) ==
    {Obj(props) : props \in {ps \in SeqsOf({Prop(k, v) : k \in K, v \in V}) : DistinctKeys(ps)}}

ArraysOf(V) == {Arr(a) : a \in SeqsOf(V)}

NoTemplate == [f |-> [kind |-> "none"], parameters |-> <<>>]

NoValue == [t |-> "none"]

-----------------------------------------------------------------------------
(* The state machine: calls of parse and of the Template it returned *)

Counted == IF calls < MaxCalls THEN calls + 1 ELSE calls

\* parse(v, e): the module's one Template in hand becomes the new one.
ParseCall(v, e) ==
    LET r == parse(v, e, lastIndex)
    IN  /\ src' = v
        /\ evalDefaults' = e
        /\ template' = r.template
        /\ lastIndex' = r.lastIndex
        /\ result' = NoValue
        /\ UNCHANGED context
        /\ calls' = Counted

\* template(c): a render; nothing of the Template or of the regex changes.
RenderCall(c) ==
    /\ template # NoTemplate
    /\ context' = c
    /\ result' = Render(template, c)
    /\ calls' = Counted
    /\ UNCHANGED <<lastIndex, src, evalDefaults, template>>

Compiled == template # NoTemplate

Rendered == result # NoValue

\* Any sequence of calls, over the values and contexts of a history.
HistoryPieces == {Placeholder(<<"a">>), <<"x">> \o Placeholder(<<"b", ":", "d">>)}

HistoryValues ==
    LET strs == {Str(s) : s \in StringsOf(HistoryPieces)}
    IN  strs \cup {Num(1), Arr(<<Str(Placeholder(<<"a">>)), Str(<<"x">>)>>),
                   Obj(<<Prop(Placeholder(<<"a">>), Str(Placeholder(<<"b", ":", "d">>)))>>)}

HistoryContexts ==
    {Obj(<<>>), Obj(<<Prop(<<"a">>, Num(5))>>), Obj(<<Prop(<<"a">>, Str(<<"k">>)), Prop(<<"b">>, Num(2))>>)}

Init ==
    /\ lastIndex = 0
    /\ src = NoValue
    /\ evalDefaults = FALSE
    /\ context = NoValue
    /\ template = NoTemplate
    /\ result = NoValue
    /\ calls = 0

Next ==
    \/ \E v \in HistoryValues, e \in BOOLEAN : ParseCall(v, e)
    \/ \E c \in HistoryContexts : RenderCall(c)

Spec == Init /\ [][Next]_vars

\* One compilation and one render of inputs drawn at the start.
Compile == ~Compiled /\ ParseCall(src, evalDefaults)

CallTemplate == Compiled /\ ~Rendered /\ RenderCall(context)

NextOnce == Compile \/ CallTemplate

InitOnce(values, flags, contexts) ==
    /\ lastIndex = 0
    /\ src \in values
    /\ evalDefaults \in flags
    /\ context \in contexts
    /\ template = NoTemplate
    /\ result = NoValue
    /\ calls = 0

-----------------------------------------------------------------------------
(* Substitution into strings: the inputs of C2, C4, C5 and C10 *)

SubstPieces == {Placeholder(<<"a">>), Placeholder(<<"b">>), <<"x">>, <<"}", "}">>}

SubstValuesA ==
    {Num(5), Bool(FALSE), Str(<<"k">>), Str(<<"$", "&">>), Str(Placeholder(<<"b">>)),
     Obj(<<Prop(<<"n">>, Num(1))>>), Fn(Arr(<<Num(1)>>))}

SubstValuesB == {Str(<<"d">>), Arr(<<>>)}

SubstContexts ==
    {Undefined}
    \cup {Obj(<<>>)}
    \cup {Obj(<<Prop(<<"a">>, va)>>) : va \in SubstValuesA}
    \cup {Obj(<<Prop(<<"b">>, vb)>>) : vb \in SubstValuesB}
    \cup {Obj(<<Prop(<<"a">>, va), Prop(<<"b">>, vb)>>) : va \in SubstValuesA, vb \in SubstValuesB}

InitSubst == InitOnce({Str(s) : s \in StringsOf(SubstPieces)}, {FALSE}, SubstContexts)

SpecSubst == InitSubst /\ [][NextOnce]_vars

-----------------------------------------------------------------------------
(* Defaults: the inputs of C3 and C9 *)

DefaultPieces ==
    {Placeholder(<<"a", ":", "1", "+", "1">>), Placeholder(<<"a", ":", "d">>),
     Placeholder(<<"a", ":", "(", ":">>), Placeholder(<<" ", "a", " ", ":", " ", "d", " ">>),
     <<"x">>}

DefaultValuesA == {Null, Num(0), Str(<<"k">>)}

DefaultValuesD == {Num(7), Obj(<<Prop(<<"n">>, Num(1))>>)}

DefaultContexts ==
    {Undefined}
    \cup {Obj(<<>>)}
    \cup {Obj(<<Prop(<<"a", " ">>, Str(<<"b">>))>>)}
    \cup {Obj(<<Prop(<<"a">>, va)>>) : va \in DefaultValuesA}
    \cup {Obj(<<Prop(<<"d">>, vd)>>) : vd \in DefaultValuesD}
    \cup {Obj(<<Prop(<<"a">>, va), Prop(<<"d">>, vd)>>) : va \in DefaultValuesA, vd \in DefaultValuesD}

InitDefaults == InitOnce({Str(s) : s \in StringsOf(DefaultPieces)}, BOOLEAN, DefaultContexts)

SpecDefaults == InitDefaults /\ [][NextOnce]_vars

-----------------------------------------------------------------------------
(* Trees: the inputs of C6 and C7 *)

\* The composites over the leaves L with the keys K, and each of them
\* nested once more, in an array and in an object.
TreesOf(K, L) ==
    LET inner == ArraysOf(L) \cup ObjectsOf(K, L)
    IN  L \cup inner
          \cup {Arr(<<c, Str(Placeholder(<<"b">>))>>) : c \in inner}
          \cup {Obj(<<Prop(Placeholder(<<"a">>), c)>>) : c \in inner}

TreeLeaves ==
    {Str(Placeholder(<<"a">>)), Str(Placeholder(<<"a">>) \o Placeholder(<<"b", ":", "d">>)),
     Str(<<"x">>), Num(1)}

TreeKeys == {Placeholder(<<"a">>), Placeholder(<<"b">>), <<"k">>}

TreeContexts ==
    {Obj(<<>>),
     Obj(<<Prop(<<"b">>, Str(<<"k">>))>>),
     Obj(<<Prop(<<"a">>, Str(<<"k">>)), Prop(<<"b">>, Str(<<"k">>))>>),
     Obj(<<Prop(<<"a">>, Str(ProtoKey)), Prop(<<"b">>, Num(5))>>)}

InitTree == InitOnce(TreesOf(TreeKeys, TreeLeaves), {FALSE}, TreeContexts)

SpecTree == InitTree /\ [][NextOnce]_vars

-----------------------------------------------------------------------------
(* Values without placeholders: the inputs of C1 *)

PlainLeaves == {Str(<<"x">>), Str(<<"{", "{", "!", "}", "}">>), Num(1), Null, Bool(TRUE)}

PlainKeys == {<<"k">>, <<"{", "x", "}">>, ProtoKey}

PlainContexts == {Undefined, Obj(<<Prop(<<"x">>, Num(5)), Prop(<<"k">>, Str(<<"d">>))>>)}

InitPlain == InitOnce(TreesOf(PlainKeys, PlainLeaves), BOOLEAN, PlainContexts)

SpecPlain == InitPlain /\ [][NextOnce]_vars

-----------------------------------------------------------------------------
(* What the claims speak of *)

IsStringTemplate == template.f.kind = "string"

NMatches == Len(template.f.matches)

\* The places of the placeholders of a string, in match order.
MatchSpans(s) == ExecAll(s, RegexExec(s, 0), <<>>)

\* s with the first k of its placeholders replaced, each at its own place,
\* by the corresponding text, and everything else kept.
RECURSIVE SpliceFrom(_, _, _, _, _, _)
SpliceFrom(s, spans, texts, i, pos, k) ==
    IF i > Len(spans) THEN SubSeq(s, pos + 1, Len(s))
    ELSE SubSeq(s, pos + 1, spans[i].index)
         \o (IF i <= k THEN texts[i] ELSE SubSeq(s, spans[i].index + 1, spans[i].end))
         \o SpliceFrom(s, spans, texts, i + 1, spans[i].end, k)

Splice(s, texts, k) == SpliceFrom(s, MatchSpans(s), texts, 1, 0, k)

\* What the key of the i-th placeholder resolves to in the context.
Looked(i) == Get(OrEmpty(context), template.f.parameters[i].key)

\* The value the i-th placeholder ends with: resolved, defaulted, called.
Final(i) == CallValue(ResolveValue(template.f.parameters[i], evalDefaults, OrEmpty(context)))

IsScalar(v) == v.t \in {"string", "number", "boolean"}

\* A scalar whose string form holds neither a brace nor a dollar sign.
IsPlain(v) == IsScalar(v) /\ \A j \in 1..Len(ToString(v)) : ToString(v)[j] \notin {"{", "$"}

IsWholeString == NMatches = 1 /\ template.f.matches[1] = src.s

HasCallable(ctx) == ctx.t = "object" /\ \E j \in 1..Len(ctx.o) : ctx.o[j].v.t = "function"

-----------------------------------------------------------------------------
(* C1 *)

\* No string and no key of v holds a placeholder.
RECURSIVE NoPlaceholder(_)
NoPlaceholder(v) ==
    CASE v.t = "string" -> MatchSpans(v.s) = <<>>
      [] v.t = "array" -> \A i \in 1..Len(v.a) : NoPlaceholder(v.a[i])
      [] v.t = "object" ->
           \A i \in 1..Len(v.o) : MatchSpans(v.o[i].k) = <<>> /\ NoPlaceholder(v.o[i].v)
      [] OTHER -> TRUE

\* Deep equality of two values: the same scalars, arrays equal element by
\* element, objects with the same own keys and deep-equal values.
RECURSIVE DeepEqual(_, _)
DeepEqual(x, y) ==
    CASE x.t # y.t -> FALSE
      [] x.t = "array" ->
           Len(x.a) = Len(y.a) /\ \A i \in 1..Len(x.a) : DeepEqual(x.a[i], y.a[i])
      [] x.t = "object" ->
           /\ {x.o[i].k : i \in 1..Len(x.o)} = {y.o[i].k : i \in 1..Len(y.o)}
           /\ \A i \in 1..Len(x.o) : \A j \in 1..Len(y.o) :
                x.o[i].k = y.o[j].k => DeepEqual(x.o[i].v, y.o[j].v)
      [] OTHER -> x = y

\* C1: a value without placeholders compiles to a Template with no
\* parameters, and its render, with any context and either evalDefaults,
\* is deep-equal to the value.
C1_PlainValueRendersToItself ==
    NoPlaceholder(src)
    => /\ Compiled => template.parameters = <<>>
       /\ Rendered => DeepEqual(result, src)

-----------------------------------------------------------------------------
(* C2 *)

\* C2: when every placeholder of a string template resolves to a string, a
\* number or a boolean, the render is the resolved value itself if and only
\* if the string is exactly one placeholder; otherwise it is the string
\* with every placeholder replaced by the string form of its value and all
\* literal text kept.
C2_NativeIffWholeString ==
    (Rendered /\ IsStringTemplate /\ \A i \in 1..NMatches : IsScalar(Looked(i)))
    => result = IF IsWholeString THEN Looked(1)
                ELSE Str(Splice(src.s, [i \in 1..NMatches |-> ToString(Looked(i))], NMatches))

-----------------------------------------------------------------------------
(* C3 *)

HasDefault(i) == "defaultValue" \in DOMAIN template.f.parameters[i]

RawDefault(i) == Str(template.f.parameters[i].defaultValue)

\* The value C3 gives the i-th placeholder, which has a default.
Claimed(i) ==
    IF Looked(i) \notin {Undefined, Null} THEN Looked(i)
    ELSE IF ~evalDefaults THEN RawDefault(i)
    ELSE IF IsThrow(SafeEval(RawDefault(i), OrEmpty(context))) THEN RawDefault(i)
    ELSE SafeEval(RawDefault(i), OrEmpty(context))

\* C3: every placeholder having a default, the render is the one of these
\* values: the context's value when the key resolves to a non-null value;
\* else the raw default text (evalDefaults false), or the value of the
\* default text (evalDefaults true), or again the raw default text when its
\* evaluation fails, in which case no error is raised.  A lone placeholder
\* renders to that value (an object as it is, a scalar as it is when the
\* placeholder is the whole string and spliced into the text otherwise);
\* several placeholders with scalar values render to the text with each
\* value spliced in.
C3_DefaultRawOrEvaluated ==
    (/\ Rendered
     /\ IsStringTemplate
     /\ \A i \in 1..NMatches : HasDefault(i)
     /\ NMatches = 1 \/ \A i \in 1..NMatches : IsPlain(Claimed(i)))
    => result = IF NMatches = 1 /\ (TypeOf(Claimed(1)) = "object" \/ IsWholeString)
                THEN Claimed(1)
                ELSE Str(Splice(src.s, [i \in 1..NMatches |-> ToString(Claimed(i))], NMatches))

\* Witness of C3: evalDefaults on, the key null, the default text "(:" no
\* expression: "x{{a:(:}}" renders to "x(:".
C3_Witness ==
    /\ Rendered
    /\ evalDefaults
    /\ src = Str(<<"x">> \o Placeholder(<<"a", ":", "(", ":">>))
    /\ Looked(1) = Null
    /\ IsThrow(SafeEval(RawDefault(1), OrEmpty(context)))
    /\ result = Str(<<"x", "(", ":">>)

-----------------------------------------------------------------------------
(* C4 *)

\* C4: with no callable in the context, a string template in which some
\* placeholder has a missing path and no default, the others resolving to
\* strings, numbers or booleans, renders to a value: no error is raised.
C4_MissingPathNeverFails ==
    (/\ Rendered
     /\ IsStringTemplate
     /\ ~HasCallable(context)
     /\ \E i \in 1..NMatches : Looked(i) = Undefined
     /\ \A i \in 1..NMatches :
          Looked(i) = Undefined \/ IsScalar(Looked(i)))
    => ~IsThrow(result)

-----------------------------------------------------------------------------
(* C5 *)

\* C5: when the first placeholder of a string template that does not end
\* with a string, number or boolean ends with an object or an array, the
\* render is that very object, whatever the placeholders after it resolve to.
C5_ObjectIsWholeResult ==
    (Rendered /\ IsStringTemplate)
    => \A i \in 1..NMatches :
         (/\ Final(i).t \in {"object", "array"}
          /\ \A j \in 1..(i - 1) : IsScalar(Final(j)))
         => result = Final(i)

-----------------------------------------------------------------------------
(* C6 *)

DescriptorsOf(s) == [i \in 1..Len(MatchesFrom(s, 0)) |-> Parameter(MatchesFrom(s, 0)[i])]

\* Every placeholder descriptor of a value in traversal order: the elements
\* of an array in index order; per key of an object, in key order, those of
\* the value and then those of the key; the matches of a string in order.
RECURSIVE AllDescriptors(_)
RECURSIVE DescriptorsFrom(_, _)
DescriptorsFrom(v, i) ==
    CASE v.t = "array" /\ i <= Len(v.a) -> AllDescriptors(v.a[i]) \o DescriptorsFrom(v, i + 1)
      [] v.t = "object" /\ i <= Len(v.o) ->
           AllDescriptors(v.o[i].v) \o DescriptorsOf(v.o[i].k) \o DescriptorsFrom(v, i + 1)
      [] OTHER -> <<>>

AllDescriptors(v) == IF v.t = "string" THEN DescriptorsOf(v.s) ELSE DescriptorsFrom(v, 1)

\* The descriptors of a list that no earlier descriptor shares the key of.
RECURSIVE FirstPerKey(_, _)
FirstPerKey(list, i) ==
    IF i > Len(list) THEN <<>>
    ELSE (IF \A j \in 1..(i - 1) : list[j].key # list[i].key THEN <<list[i]>> ELSE <<>>)
         \o FirstPerKey(list, i + 1)

\* C6: the parameters of a compiled Template, which every nested Template
\* deduplicated before the root did, are the first descriptor of each key
\* of the whole value's descriptors in traversal order.
C6_ParametersFirstPerKey ==
    Compiled => template.parameters = FirstPerKey(AllDescriptors(src), 1)

\* Witness of C6: [ {"{{a}}": "{{a}}{{b:d}}"}, "{{b}}" ] has the parameters
\* a and b with its default: the key's a and the later b are dropped.
C6_Witness ==
    /\ Compiled
    /\ src = Arr(<<Obj(<<Prop(Placeholder(<<"a">>),
                               Str(Placeholder(<<"a">>) \o Placeholder(<<"b", ":", "d">>)))>>),
                   Str(Placeholder(<<"b">>))>>)
    /\ Len(AllDescriptors(src)) = 4
    /\ template.parameters = <<[key |-> <<"a">>], [key |-> <<"b">>, defaultValue |-> <<"d">>]>>

-----------------------------------------------------------------------------
(* C7 *)

ElementRenders == [i \in 1..Len(template.f.templates) |-> Render(template.f.templates[i], context)]

KeyRenders ==
    [i \in 1..Len(template.f.children) |-> Render(template.f.children[i].keyTemplate, context)]

ValueRenders ==
    [i \in 1..Len(template.f.children) |-> Render(template.f.children[i].valueTemplate, context)]

AnyThrows(rs) == \E i \in 1..Len(rs) : IsThrow(rs[i])

\* The children whose rendered key is the string k.
ChildrenOfKey(k) == {i \in 1..Len(template.f.children) : ToString(KeyRenders[i]) = k}

OwnKeys(o) == {o[j].k : j \in 1..Len(o)}

-----------------------------------------------------------------------------
(* C9 *)

Inner(match) == SubSeq(match, 3, Len(match) - 2)

\* The descriptor C9 gives a match: the key is the trimmed text left of the
\* first colon of the text inside the braces (all of it, trimmed, when it
\* holds no colon), the default the untouched text right of that colon.
ClaimedParameter(inner, i) ==
    IF i = 0 THEN [key |-> Trim(inner)]
    ELSE [key |-> Trim(SubSeq(inner, 1, i - 1)),
          defaultValue |-> SubSeq(inner, i + 1, Len(inner))]

\* C9: the descriptor of every match of a compiled string has the trimmed
\* key and the untouched default text.
C9_TrimmedKeyUntouchedDefault ==
    (Compiled /\ IsStringTemplate)
    => \A i \in 1..NMatches :
         template.f.parameters[i]
           = ClaimedParameter(Inner(template.f.matches[i]),
                              IndexOf(Inner(template.f.matches[i]), ":"))

-----------------------------------------------------------------------------
(* C10 *)

HasRepeatedPlaceholder ==
    \E i, j \in 1..NMatches : i < j /\ template.f.matches[i] = template.f.matches[j]

\* C10 as stated: a string in which the same placeholder text occurs twice
\* or more, every placeholder resolving to a string, renders to a string in
\* which that placeholder text is still found.
C10_RepeatedLeftUnfilled ==
    (/\ Rendered
     /\ IsStringTemplate
     /\ \A i \in 1..NMatches : Looked(i).t = "string")
    => \A i, j \in 1..NMatches :
         (i < j /\ template.f.matches[i] = template.f.matches[j])
         => (result.t = "string" /\ IndexOfSub(result.s, template.f.matches[i]) # 0)

\* The accumulator after the first k calls of the reducer.
RECURSIVE AccAfter(_)
AccAfter(k) ==
    IF k = 0 THEN Str(template.f.str)
    ELSE StringStep(AccAfter(k - 1), template.f.matches[k], template.f.parameters[k],
                    template.f, OrEmpty(context))

\* C10 amended: in a string with a repeated placeholder text whose
\* placeholders resolve to strings holding no brace and no dollar sign,
\* each call of the reducer replaces one occurrence, the first one left in
\* the accumulated string, and as the reducer is called once per
\* occurrence the render has every occurrence filled.
C10_RepeatedAllFilled ==
    (/\ Rendered
     /\ IsStringTemplate
     /\ HasRepeatedPlaceholder
     /\ \A i \in 1..NMatches : Looked(i).t = "string" /\ IsPlain(Looked(i)))
    => /\ \A k \in 0..NMatches :
            AccAfter(k) = Str(Splice(src.s, [i \in 1..NMatches |-> Looked(i).s], k))
       /\ result = Str(Splice(src.s, [i \in 1..NMatches |-> Looked(i).s], NMatches))

\* Witness of C10: "{{a}}x{{a}}" rendered with a = "k" is "kxk".
C10_Witness ==
    /\ Rendered
    /\ src = Str(Placeholder(<<"a">>) \o <<"x">> \o Placeholder(<<"a">>))
    /\ Looked(1) = Str(<<"k">>)
    /\ result = Str(<<"k", "x", "k">>)

-----------------------------------------------------------------------------
(* C8 *)

\* A Template in hand is the one compiled afresh, and renders as it does.
SameAsFresh(fresh) ==
    /\ template = fresh
    /\ template.parameters = fresh.parameters
    /\ Rendered => result = Render(fresh, context)

\* C8: after any sequence of parse calls and renders the shared regex is
\* back at lastIndex 0, the Template in hand is the one a first-ever
\* parse(v, e) compiles (same function, same parameters), its render is the
\* render of that Template, and its parameters are still those of its
\* compilation after any number of renders.
C8_HistoryIndependent ==
    /\ lastIndex = 0
    /\ Compiled => SameAsFresh(parse(src, evalDefaults, 0).template)

\* Witness of C8: a string with two placeholders compiled and rendered
\* after an earlier parse of another string with placeholders.
C8_Witness ==
    /\ Rendered
    /\ calls = MaxCalls
    /\ src = Str(Placeholder(<<"a">>) \o <<"x">> \o Placeholder(<<"b", ":", "d">>))
    /\ Len(template.parameters) = 2
    /\ result = Str(<<"5", "x", "d">>)

====
